---------------------------- MODULE Spec2Model ----------------------------
(***************************************************************************)
(* Token Detection & Rewriting Engine of the GCP Namespace Revealer        *)
(* content script (src/src/content.js).                                    *)
(*                                                                         *)
(* A text is a sequence of one-character strings.  The document is a heap  *)
(* of DOM nodes addressed by allocation number; node 1 is                  *)
(* document.documentElement and node 2 is document.body.  A handler of the *)
(* script (the storage callback, the storage listener, the                 *)
(* MutationObserver callback) runs to completion, so each is one action;   *)
(* the page's own scripts are the Host actions.                            *)
(***************************************************************************)
EXTENDS Integers, Sequences, FiniteSets, TLC

(***************************************************************************)
(* Characters and texts                                                    *)
(***************************************************************************)
Digits == {"0", "1", "2", "3", "4", "5", "6", "7", "8", "9"}

LowerLetters ==
  {"a", "b", "c", "d", "e", "f", "g", "h", "i", "j", "k", "l", "m",
   "n", "o", "p", "q", "r", "s", "t", "u", "v", "w", "x", "y", "z"}

UpperLetters ==
  {"A", "B", "C", "D", "E", "F", "G", "H", "I", "J", "K", "L", "M",
   "N", "O", "P", "Q", "R", "S", "T", "U", "V", "W", "X", "Y", "Z"}

\* [0-9a-f] of ID_REGEX
HexChars == Digits \cup {"a", "b", "c", "d", "e", "f"}

\* \w of an ECMAScript regular expression without the u/i flags
WordChars == Digits \cup LowerLetters \cup UpperLetters \cup {"_"}

\* {16} of ID_REGEX
HexLen == 16

\* length of a matched token: the prefix and the hex digits
TokenLen == 1 + HexLen

\* String.prototype.slice(from, to) with 0-based offsets, 0 <= from
Slice(text, from, to) == SubSeq(text, from + 1, to)

RECURSIVE Concat(_)
Concat(seqs) ==
  IF seqs = << >> THEN << >> ELSE Head(seqs) \o Concat(Tail(seqs))

(***************************************************************************)
(* Token Scanner: ID_REGEX = /\bx[0-9a-f]{16}\b/g                          *)
(***************************************************************************)
\* \b at 0-based offset pos: exactly one of the characters before and
\* after the offset is a word character
WordBoundary(text, pos) ==
  LET before == pos >= 1 /\ pos <= Len(text) /\ text[pos] \in WordChars
      after  == pos >= 0 /\ pos < Len(text) /\ text[pos + 1] \in WordChars
  IN  before # after

\* x[0-9a-f]{16} without the anchors, at 0-based offset pos
TokenShapeAt(text, pos) ==
  /\ pos >= 0
  /\ pos + TokenLen <= Len(text)
  /\ text[pos + 1] = "x"
  /\ \A k \in 1..HexLen : text[pos + 1 + k] \in HexChars

\* variant of MatchesAt: the pattern without its closing \b
MatchesAtMutNoTrailingBoundary(text, pos) ==
  /\ WordBoundary(text, pos)
  /\ TokenShapeAt(text, pos)

\* the whole pattern matches at 0-based offset pos
MatchesAt(text, pos) ==
  /\ WordBoundary(text, pos)
  /\ TokenShapeAt(text, pos)
  /\ WordBoundary(text, pos + TokenLen)

\* RegExpBuiltinExec: the first offset >= lastIndex where the pattern
\* matches, or -1 (null)
RECURSIVE RegExpExec(_, _)
RegExpExec(text, lastIndex) ==
  IF lastIndex > Len(text) THEN -1
  ELSE IF MatchesAt(text, lastIndex) THEN lastIndex
  ELSE RegExpExec(text, lastIndex + 1)

\* ID_REGEX.test(text) with the g flag: reads and writes lastIndex
RegExpTest(text, lastIndex) ==
  LET at == RegExpExec(text, lastIndex)
  IN  IF at = -1
      THEN [found |-> FALSE, lastIndex |-> 0]
      ELSE [found |-> TRUE, lastIndex |-> at + TokenLen]

\* [...text.matchAll(ID_REGEX)]: the iterator works on a copy of the
\* regex that starts at the original's lastIndex; each match m has
\* m.index and m[0] (here: id)
RECURSIVE MatchAll(_, _)
MatchAll(text, lastIndex) ==
  LET at == RegExpExec(text, lastIndex)
  IN  IF at = -1 THEN << >>
      ELSE << [index |-> at, id |-> Slice(text, at, at + TokenLen)] >>
           \o MatchAll(text, at + TokenLen)


(***************************************************************************)
(* DOM heap.  dom is a sequence of node records; a node is its index, and  *)
(* 0 stands for null.  gen and role are history fields: gen counts the     *)
(* rewrites that led to the node (0 for a node the page made), role says   *)
(* which part of a fragment the Rewriter made the node for.                *)
(***************************************************************************)
Null == 0

NoText == << >>

TextNode(data, gen, role) ==
  [nodeType |-> "TEXT", tagName |-> "#text", nodeValue |-> data,
   title |-> NoText, style |-> {}, annotated |-> FALSE,
   parentNode |-> Null, childNodes |-> << >>, gen |-> gen, role |-> role]

CommentNode(data) ==
  [nodeType |-> "COMMENT", tagName |-> "#comment", nodeValue |-> data,
   title |-> NoText, style |-> {}, annotated |-> FALSE,
   parentNode |-> Null, childNodes |-> << >>, gen |-> 0, role |-> "host"]

ElementNode(tag, gen, role) ==
  [nodeType |-> "ELEMENT", tagName |-> tag, nodeValue |-> NoText,
   title |-> NoText, style |-> {}, annotated |-> FALSE,
   parentNode |-> Null, childNodes |-> << >>, gen |-> gen, role |-> role]

\* offset of node n among the children of its parent, 0 if it has none
ChildIndex(d, n) ==
  IF d[n].parentNode = Null THEN 0
  ELSE LET kids == d[d[n].parentNode].childNodes
       IN  CHOOSE i \in 1..Len(kids) : kids[i] = n

\* node.firstChild
FirstChild(d, n) ==
  IF d[n].childNodes = << >> THEN Null ELSE d[n].childNodes[1]

\* node.nextSibling: null for a node that has no parent
NextSibling(d, n) ==
  IF d[n].parentNode = Null THEN Null
  ELSE LET kids == d[d[n].parentNode].childNodes
           i    == ChildIndex(d, n)
       IN  IF i < Len(kids) THEN kids[i + 1] ELSE Null

\* n and its ancestors, n first
RECURSIVE Ancestors(_, _)
Ancestors(d, n) ==
  IF n = Null THEN << >> ELSE << n >> \o Ancestors(d, d[n].parentNode)

\* document.documentElement and document.body
DocumentElement == 1

Body == 2

\* n is in the document
InDocument(d, n) ==
  LET up == Ancestors(d, n) IN up[Len(up)] = DocumentElement

\* the text leaves of the subtree of n, in document order
RECURSIVE TextLeaves(_, _)
TextLeaves(d, n) ==
  IF d[n].nodeType = "TEXT" THEN << n >>
  ELSE Concat([i \in 1..Len(d[n].childNodes) |->
                 TextLeaves(d, d[n].childNodes[i])])

\* Node.textContent of the subtree of n
TextContent(d, n) ==
  LET leaves == TextLeaves(d, n)
  IN  Concat([i \in 1..Len(leaves) |-> d[leaves[i]].nodeValue])

\* appendChild of a node that has no parent (no observer involved)
AppendChild(d, parent, n) ==
  [d EXCEPT ![parent].childNodes = Append(@, n), ![n].parentNode = parent]

\* element.textContent = data on a fresh element, data not empty
SetTextContent(d, el, data, role) ==
  LET t == Len(d) + 1
  IN  AppendChild(Append(d, TextNode(data, d[el].gen, role)), el, t)

(***************************************************************************)
(* The machine a handler of the content script runs on: the DOM heap, the  *)
(* script's globals (idMap, replaceMode, ID_REGEX.lastIndex), the record   *)
(* queue of the MutationObserver, and two history fields: calls, the       *)
(* calls of annotateOrReplaceTextNode made by the handler, and threw,      *)
(* whether the handler ended by an uncaught exception.                     *)
(***************************************************************************)
\* the value of a missing property; no text equals it
Undefined == << "undefined" >>

\* idMap[id]
Lookup(map, id) == IF id \in DOMAIN map THEN map[id] ELSE Undefined

\* variant of Truthy: the test `if (ns)` left out
TruthyMutAlways(ns) == TRUE

\* if (ns): undefined and the empty string are falsy
Truthy(ns) == ns # Undefined /\ ns # NoText

\* variant of AnnotationText: one leading space
AnnotationTextMutOneSpace(ns) ==
  << " ", "(", "n", "a", "m", "e", "s", "p", "a", "c", "e", ":", " " >>
  \o ns \o << ")" >>

\* `  (namespace: ${ns})`
AnnotationText(ns) ==
  << " ", " ", "(", "n", "a", "m", "e", "s", "p", "a", "c", "e", ":", " " >>
  \o ns \o << ")" >>

\* abbr.style.borderBottom; ann.style.fontSize, opacity, marginLeft
AbbrStyle == {"border-bottom: 1px dotted currentColor"}

AnnStyle == {"font-size: 90%", "opacity: 0.75", "margin-left: 4px"}

\* A mutation record is queued for a change in the observed tree: the
\* observer is registered on document.documentElement with childList,
\* subtree and characterData
Observed(m, target) == m.observing /\ InDocument(m.dom, target)

ChildListRecord(target, added, removed) ==
  [type |-> "childList", target |-> target,
   addedNodes |-> added, removedNodes |-> removed]

CharacterDataRecord(target) ==
  [type |-> "characterData", target |-> target,
   addedNodes |-> << >>, removedNodes |-> << >>]

\* variant of Translate: token and display name the other way round
TranslateMutShowId(b, id, ns, g) ==
  LET n    == Len(b.dom) + 1
      abbr == [ElementNode("ABBR", g, "name") EXCEPT
                 !.title = ns, !.style = AbbrStyle]
  IN  [dom  |-> SetTextContent(Append(b.dom, abbr), n, id, "name"),
       frag |-> Append(b.frag, n)]

\* lines 88-93: <abbr title=id>ns</abbr>, appended to the fragment;
\* b = [dom, frag] and the result is the new b
Translate(b, id, ns, g) ==
  LET n    == Len(b.dom) + 1
      abbr == [ElementNode("ABBR", g, "name") EXCEPT
                 !.title = id, !.style = AbbrStyle]
  IN  [dom  |-> SetTextContent(Append(b.dom, abbr), n, ns, "name"),
       frag |-> Append(b.frag, n)]

\* lines 97-114: <span data-gcp-ns-annotated><strong>id</strong>
\* <span>suffix</span></span>, appended to the fragment
Annotate(b, id, ns, g) ==
  LET n      == Len(b.dom) + 1
      wrap   == [ElementNode("SPAN", g, "wrap") EXCEPT !.annotated = TRUE]
      strong == ElementNode("STRONG", g, "token")
      ann    == [ElementNode("SPAN", g, "suffix") EXCEPT !.style = AnnStyle]
      d1 == Append(b.dom, wrap)
      d2 == SetTextContent(Append(d1, strong), n + 1, id, "token")
      d3 == SetTextContent(Append(d2, ann), n + 3,
                           AnnotationText(ns), "suffix")
  IN  [dom  |-> AppendChild(AppendChild(d3, n, n + 1), n, n + 3),
       frag |-> Append(b.frag, n)]

\* line 118: the token itself, as a text node
Unknown(b, id, g) ==
  [dom  |-> Append(b.dom, TextNode(id, g, "unmapped")),
   frag |-> Append(b.frag, Len(b.dom) + 1)]

\* lines 81-119: the fragment node for one match
AppendReplacement(b, id, ns, replaceMode, g) ==
  IF Truthy(ns)
  THEN IF replaceMode THEN Translate(b, id, ns, g)
       ELSE Annotate(b, id, ns, g)
  ELSE Unknown(b, id, g)

\* variant of Advance: the length of the match not added
AdvanceMutKeepIndex(idx, id) == idx

\* line 78: lastIndex = idx + id.length
Advance(idx, id) == idx + Len(id)

\* line 75: the text between the last match and this one, appended to
\* the fragment; b = [dom, frag, lastIndex]
AppendPlain(b, text, to, g) ==
  [dom  |-> Append(b.dom, TextNode(Slice(text, b.lastIndex, to), g, "plain")),
   frag |-> Append(b.frag, Len(b.dom) + 1)]

\* the state of the loop after the body has run for match
AfterMatch(b, match) ==
  [dom |-> b.dom, frag |-> b.frag,
   lastIndex |-> Advance(match.index, match.id)]

\* lines 71-119: the body of `for (const m of matches)` for one match
BuildMatch(b, text, match, map, replaceMode, g) ==
  AfterMatch(AppendReplacement(AppendPlain(b, text, match.index, g),
                               match.id, Lookup(map, match.id),
                               replaceMode, g),
             match)

\* the loop, from match number i on
RECURSIVE BuildMatches(_, _, _, _, _, _, _)
BuildMatches(b, text, matches, i, map, replaceMode, g) ==
  IF i > Len(matches) THEN b
  ELSE BuildMatches(BuildMatch(b, text, matches[i], map, replaceMode, g),
                    text, matches, i + 1, map, replaceMode, g)

\* lines 61-123: the fragment for a text with its matches; the nodes of
\* the fragment are new in the heap and the result is [dom, frag]
BuildFragment(d, text, matches, map, replaceMode, g) ==
  AppendPlain(BuildMatches([dom |-> d, frag |-> << >>, lastIndex |-> 0],
                           text, matches, 1, map, replaceMode, g),
              text, Len(text), g)

\* variant of ReplaceChild: the children of the fragment go to the end of
\* the children of parent
ReplaceChildMutAtEnd(m, d, parent, frag, node) ==
  LET kids == d[parent].childNodes
      i    == ChildIndex(d, node)
      d2   == [n \in 1..Len(d) |->
                 IF n = parent
                   THEN [d[n] EXCEPT !.childNodes =
                           SubSeq(kids, 1, i - 1)
                           \o SubSeq(kids, i + 1, Len(kids)) \o frag]
                 ELSE IF n = node THEN [d[n] EXCEPT !.parentNode = Null]
                 ELSE IF \E j \in 1..Len(frag) : frag[j] = n
                   THEN [d[n] EXCEPT !.parentNode = parent]
                 ELSE d[n]]
  IN  [m EXCEPT !.dom = d2,
                !.records = IF Observed(m, parent)
                            THEN Append(@, ChildListRecord(parent, frag,
                                                           << node >>))
                            ELSE @]

\* parent.replaceChild(frag, node): the children of the fragment take the
\* place of node, node loses its parent, and the observer gets one
\* childList record if parent is in the observed tree
ReplaceChild(m, d, parent, frag, node) ==
  LET kids == d[parent].childNodes
      i    == ChildIndex(d, node)
      d2   == [n \in 1..Len(d) |->
                 IF n = parent
                   THEN [d[n] EXCEPT !.childNodes =
                           SubSeq(kids, 1, i - 1) \o frag
                           \o SubSeq(kids, i + 1, Len(kids))]
                 ELSE IF n = node THEN [d[n] EXCEPT !.parentNode = Null]
                 ELSE IF \E j \in 1..Len(frag) : frag[j] = n
                   THEN [d[n] EXCEPT !.parentNode = parent]
                 ELSE d[n]]
  IN  [m EXCEPT !.dom = d2,
                !.records = IF Observed(m, parent)
                            THEN Append(@, ChildListRecord(parent, frag,
                                                           << node >>))
                            ELSE @]

\* what a node looks like: the node and its subtree as a value
RECURSIVE Describe(_, _)
Describe(d, n) ==
  [nodeType |-> d[n].nodeType, tagName |-> d[n].tagName,
   nodeValue |-> d[n].nodeValue, title |-> d[n].title,
   annotated |-> d[n].annotated,
   childNodes |-> [i \in 1..Len(d[n].childNodes) |->
                     Describe(d, d[n].childNodes[i])]]

Call(m, node, outcome, matches, frag) ==
  [node |-> node, outcome |-> outcome, entryLastIndex |-> m.lastIndex,
   text |-> IF node = Null THEN NoText ELSE m.dom[node].nodeValue,
   parent |-> IF node = Null THEN Null ELSE m.dom[node].parentNode,
   inDocument |-> node # Null /\ InDocument(m.dom, node),
   ancestors |-> IF node = Null THEN << >> ELSE Ancestors(m.dom, node),
   path |-> IF node = Null THEN << >>
            ELSE [i \in 1..Len(Ancestors(m.dom, node)) |->
                    m.dom[Ancestors(m.dom, node)[i]].tagName],
   gen |-> IF node = Null THEN 0 ELSE m.dom[node].gen,
   role |-> IF node = Null THEN "host" ELSE m.dom[node].role,
   idMap |-> m.idMap, replaceMode |-> m.replaceMode,
   matches |-> matches, frag |-> frag]

\* the fragment as a value: what each of its nodes looks like
Shape(built) ==
  [i \in 1..Len(built.frag) |-> Describe(built.dom, built.frag[i])]

\* lines 63, 127: parent.replaceChild(frag, node) with the fragment built.
\* A node without parent makes it a TypeError; the fragment built for it
\* is garbage and is not kept in the heap
Replace(m, node, matches, built, shape) ==
  IF m.dom[node].parentNode = Null
  THEN [m EXCEPT !.lastIndex = 0,
                 !.threw = TRUE,
                 !.calls = Append(@, Call(m, node, "threw", matches, shape))]
  ELSE [ReplaceChild(m, built.dom, m.dom[node].parentNode, built.frag, node)
          EXCEPT !.lastIndex = 0,
                 !.calls = Append(@, Call(m, node, "replaced",
                                          matches, shape))]

\* lines 61-127, with the fragment
WithFragment(m, node, matches, built) ==
  Replace(m, node, matches, built, Shape(built))

\* lines 58-127, with the matches
WithMatches(m, node, matches) ==
  IF matches = << >>
  THEN [m EXCEPT !.lastIndex = 0,
                 !.calls = Append(@, Call(m, node, "noMatch", << >>, << >>))]
  ELSE WithFragment(m, node, matches,
                    BuildFragment(m.dom, m.dom[node].nodeValue, matches,
                                  m.idMap, m.replaceMode,
                                  m.dom[node].gen + 1))

\* variant of AfterTest: line 55 is left out, lastIndex stays where the
\* test left it
AfterTestMutNoReset(m, node, test) ==
  IF ~test.found
  THEN [m EXCEPT !.lastIndex = test.lastIndex,
                 !.calls = Append(@, Call(m, node, "noMatch", << >>, << >>))]
  ELSE [WithMatches(m, node, MatchAll(m.dom[node].nodeValue, 0))
          EXCEPT !.lastIndex = test.lastIndex]

\* lines 52-127, with the result of ID_REGEX.test(text); line 55 sets
\* lastIndex to 0 before matchAll reads it
AfterTest(m, node, test) ==
  IF ~test.found
  THEN [m EXCEPT !.lastIndex = test.lastIndex,
                 !.calls = Append(@, Call(m, node, "noMatch", << >>, << >>))]
  ELSE WithMatches(m, node, MatchAll(m.dom[node].nodeValue, 0))

\* annotateOrReplaceTextNode(node)
annotateOrReplaceTextNode(m, node) ==
  IF node = Null \/ m.dom[node].nodeType # "TEXT"
  THEN [m EXCEPT !.calls = Append(@, Call(m, node, "notText", << >>, << >>))]
  ELSE AfterTest(m, node, RegExpTest(m.dom[node].nodeValue, m.lastIndex))

(***************************************************************************)
(* Tree Walker and Change Watcher                                          *)
(***************************************************************************)
\* if (tag === 'INPUT' || tag === 'TEXTAREA') return;
EditableTags == {"INPUT", "TEXTAREA"}

\* walk(node); WalkFrom is the for loop, standing at child, and WalkNext
\* its step `child = child.nextSibling` after walk(child).  An exception
\* thrown by a call ends the loop and the walk
RECURSIVE walk(_, _), WalkFrom(_, _), WalkNext(_, _)
walk(m, node) ==
  IF m.dom[node].nodeType = "TEXT" THEN annotateOrReplaceTextNode(m, node)
  ELSE IF m.dom[node].nodeType # "ELEMENT" THEN m
  ELSE IF m.dom[node].tagName \in EditableTags THEN m
  ELSE WalkFrom(m, FirstChild(m.dom, node))

WalkFrom(m, child) ==
  IF child = Null THEN m ELSE WalkNext(walk(m, child), child)

WalkNext(after, child) ==
  IF after.threw THEN after
  ELSE WalkFrom(after, NextSibling(after.dom, child))

\* variant of HandleNode: an added element makes the whole body be walked
HandleNodeMutWalkBody(m, n) ==
  IF m.dom[n].nodeType = "TEXT" THEN annotateOrReplaceTextNode(m, n)
  ELSE IF m.dom[n].nodeType = "ELEMENT" THEN walk(m, Body)
  ELSE m

\* lines 170-174: one added node
HandleNode(m, n) ==
  IF m.dom[n].nodeType = "TEXT" THEN annotateOrReplaceTextNode(m, n)
  ELSE IF m.dom[n].nodeType = "ELEMENT" THEN walk(m, n)
  ELSE m

\* for (const n of m.addedNodes), from node number i on
RECURSIVE HandleAdded(_, _, _)
HandleAdded(m, nodes, i) ==
  IF i > Len(nodes) \/ m.threw THEN m
  ELSE HandleAdded(HandleNode(m, nodes[i]), nodes, i + 1)

\* lines 177-180: the target of a characterData record
HandleTarget(after, rec) ==
  IF after.threw THEN after
  ELSE IF rec.type = "characterData" /\ after.dom[rec.target].nodeType = "TEXT"
  THEN annotateOrReplaceTextNode(after, rec.target)
  ELSE after

\* variant of HandleRecord: removed nodes are handled like added nodes
HandleRecordMutRemoved(m, rec) ==
  HandleTarget(HandleAdded(m, rec.addedNodes \o rec.removedNodes, 1), rec)

\* the body of `for (const m of mutations)` for one record
HandleRecord(m, rec) == HandleTarget(HandleAdded(m, rec.addedNodes, 1), rec)

\* the observer's callback on a batch, from record number i on; handled
\* counts the records whose handling came to its end
RECURSIVE HandleBatch(_, _, _), BatchNext(_, _, _)
HandleBatch(m, mutations, i) ==
  IF i > Len(mutations) THEN m
  ELSE BatchNext(HandleRecord(m, mutations[i]), mutations, i)

BatchNext(after, mutations, i) ==
  IF after.threw THEN after
  ELSE HandleBatch([after EXCEPT !.handled = @ + 1], mutations, i + 1)

\* observe(): the observer is registered on document.documentElement
observe(m) == [m EXCEPT !.observing = TRUE]

(***************************************************************************)
(* Inputs: tokens, display names, mappings, texts and subtrees             *)
(***************************************************************************)
Zeros(n) == [i \in 1..n |-> "0"]

\* xabc0000000000001 and xabc0000000000002
TokA == << "x", "a", "b", "c" >> \o Zeros(12) \o << "1" >>

TokB == << "x", "a", "b", "c" >> \o Zeros(12) \o << "2" >>

\* xABC0000000000001: upper-case digits; xabc000000000001: 15 digits
UpperTok == << "x", "A", "B", "C" >> \o Zeros(12) \o << "1" >>

ShortTok == << "x", "a", "b", "c" >> \o Zeros(11) \o << "1" >>

TeamsProd == << "t", "e", "a", "m", "s", "-", "p", "r", "o", "d" >>

Billing == << "b", "i", "l", "l", "i", "n", "g" >>

See == << "s", "e", "e", " " >>

Now == << " ", "n", "o", "w" >>

Hi == << "h", "i" >>

\* "see xabc0000000000001 now" and "see xabc0000000000002 now"
SeeA == See \o TokA \o Now

SeeB == See \o TokB \o Now

EmptyMap == [t \in {} |-> NoText]

MapA == [t \in {TokA} |-> TeamsProd]

MapAB == [t \in {TokA, TokB} |-> IF t = TokA THEN TeamsProd ELSE Billing]

\* a value that may be undefined
None == [some |-> FALSE]

Some(v) == [some |-> TRUE, value |-> v]

\* descriptions of the subtrees the page attaches
Txt(t) == [nodeType |-> "TEXT", tagName |-> "#text", nodeValue |-> t,
           childNodes |-> << >>]

Cmt(t) == [nodeType |-> "COMMENT", tagName |-> "#comment", nodeValue |-> t,
           childNodes |-> << >>]

El(tag, kids) == [nodeType |-> "ELEMENT", tagName |-> tag,
                  nodeValue |-> NoText, childNodes |-> kids]

\* the texts the page writes
HostTexts == {SeeA, TokB, Hi}

\* the subtrees the page attaches in one step
HostSubtrees ==
  {Txt(t) : t \in HostTexts}
  \cup {Cmt(TokA),
        El("DIV", << >>),
        El("TEXTAREA", << >>),
        El("TEXTAREA", << Txt(SeeA) >>),
        El("DIV", << Txt(SeeA) >>),
        El("DIV", << Txt(SeeA), Txt(SeeA) >>),
        El("DIV", << Txt(Hi), Txt(SeeA), El("DIV", << Txt(TokB) >>) >>),
        El("DIV", << El("INPUT", << Txt(SeeA) >>), Txt(Hi) >>)}

\* the node for a description, without parent or children
NodeOf(desc) ==
  IF desc.nodeType = "TEXT" THEN TextNode(desc.nodeValue, 0, "host")
  ELSE IF desc.nodeType = "COMMENT" THEN CommentNode(desc.nodeValue)
  ELSE ElementNode(desc.tagName, 0, "host")

\* the heap after the subtree desc was built and appended to parent; the
\* root of the subtree is node Len(d) + 1
RECURSIVE Attach(_, _, _), AttachAll(_, _, _, _)
Attach(d, parent, desc) ==
  LET n == Len(d) + 1
  IN  AttachAll(AppendChild(Append(d, NodeOf(desc)), parent, n),
                n, desc.childNodes, 1)

AttachAll(d, parent, descs, i) ==
  IF i > Len(descs) THEN d
  ELSE AttachAll(Attach(d, parent, descs[i]), parent, descs, i + 1)

(***************************************************************************)
(* Options page: toId and the MD5 digest it uses.  A 32-bit integer is a   *)
(* pair << high, low >> of 16-bit halves, 0..65535 each, read as two's     *)
(* complement; `| 0` and the shifts of the code are arithmetic modulo 2^32. *)
(***************************************************************************)
\* the characters of names: letters, digits, '-', '_', '.' and the space
UpperCase ==
  << "A", "B", "C", "D", "E", "F", "G", "H", "I", "J", "K", "L", "M", "N",
     "O", "P", "Q", "R", "S", "T", "U", "V", "W", "X", "Y", "Z" >>

LowerCase ==
  << "a", "b", "c", "d", "e", "f", "g", "h", "i", "j", "k", "l", "m", "n",
     "o", "p", "q", "r", "s", "t", "u", "v", "w", "x", "y", "z" >>

DecimalDigits ==
  << "0", "1", "2", "3", "4", "5", "6", "7", "8", "9" >>

IndexOf(chars, c) == CHOOSE i \in 1..Len(chars) : chars[i] = c

IsOneOf(chars, c) == \E i \in 1..Len(chars) : chars[i] = c

\* s.charCodeAt(i) for one character
CharCode(c) ==
  IF IsOneOf(UpperCase, c) THEN 64 + IndexOf(UpperCase, c)
  ELSE IF IsOneOf(LowerCase, c) THEN 96 + IndexOf(LowerCase, c)
  ELSE IF IsOneOf(DecimalDigits, c) THEN 47 + IndexOf(DecimalDigits, c)
  ELSE IF c = "-" THEN 45
  ELSE IF c = "." THEN 46
  ELSE IF c = "_" THEN 95
  ELSE 32

\* String.prototype.toLowerCase on these characters: A..Z become a..z
toLowerCase(s) ==
  [i \in 1..Len(s) |->
     IF IsOneOf(UpperCase, s[i]) THEN LowerCase[IndexOf(UpperCase, s[i])]
     ELSE s[i]]

Half == 65536

\* the integer n of the source, -2^31 < n < 2^31, as a pair of halves
Int32(n) ==
  IF n >= 0 THEN << n \div Half, n % Half >>
  ELSE << (Half - 1) - ((-n - 1) \div Half),
          (Half - 1) - ((-n - 1) % Half) >>

\* x & y on n-bit halves
RECURSIVE And16(_, _, _)
And16(x, y, n) ==
  IF n = 0 THEN 0
  ELSE ((x % 2) * (y % 2)) + (2 * And16(x \div 2, y \div 2, n - 1))

\* a & b, a | b, a ^ b, ~a
And(a, b) == << And16(a[1], b[1], 16), And16(a[2], b[2], 16) >>

Or(a, b) ==
  << (a[1] + b[1]) - And16(a[1], b[1], 16),
     (a[2] + b[2]) - And16(a[2], b[2], 16) >>

Xor(a, b) ==
  << (a[1] + b[1]) - (2 * And16(a[1], b[1], 16)),
     (a[2] + b[2]) - (2 * And16(a[2], b[2], 16)) >>

Not(a) == << (Half - 1) - a[1], (Half - 1) - a[2] >>

\* (a + b) | 0
Add(a, b) ==
  << (a[1] + b[1] + ((a[2] + b[2]) \div Half)) % Half, (a[2] + b[2]) % Half >>

\* 2^n
RECURSIVE Pow2(_)
Pow2(n) == IF n = 0 THEN 1 ELSE 2 * Pow2(n - 1)

\* the halves w rotated left by r < 16 bits
Rotl16(w, r) ==
  << ((w[1] * Pow2(r)) % Half) + (w[2] \div Pow2(16 - r)),
     ((w[2] * Pow2(r)) % Half) + (w[1] \div Pow2(16 - r)) >>

\* (a << s) | (a >>> (32 - s)), 0 < s < 32
Rotl(a, s) ==
  IF s >= 16 THEN Rotl16(<< a[2], a[1] >>, s - 16) ELSE Rotl16(a, s)

\* cmn and the four round functions of md5cycle
cmn(q, a, b, x, s, t) == Add(Rotl(Add(Add(a, q), Add(x, t)), s), b)

ff(a, b, c, d, x, s, t) == cmn(Or(And(b, c), And(Not(b), d)), a, b, x, s, t)

gg(a, b, c, d, x, s, t) == cmn(Or(And(b, d), And(c, Not(d))), a, b, x, s, t)

hh(a, b, c, d, x, s, t) == cmn(Xor(Xor(b, c), d), a, b, x, s, t)

ii(a, b, c, d, x, s, t) == cmn(Xor(c, Or(b, Not(d))), a, b, x, s, t)

\* the 64 operations of md5cycle in order: the round function, the index
\* of the word of k, the shift and the constant
Operations ==
  << [f |-> "ff", k |-> 0, s |-> 7, t |-> -680876936],
     [f |-> "ff", k |-> 1, s |-> 12, t |-> -389564586],
     [f |-> "ff", k |-> 2, s |-> 17, t |-> 606105819],
     [f |-> "ff", k |-> 3, s |-> 22, t |-> -1044525330],
     [f |-> "ff", k |-> 4, s |-> 7, t |-> -176418897],
     [f |-> "ff", k |-> 5, s |-> 12, t |-> 1200080426],
     [f |-> "ff", k |-> 6, s |-> 17, t |-> -1473231341],
     [f |-> "ff", k |-> 7, s |-> 22, t |-> -45705983],
     [f |-> "ff", k |-> 8, s |-> 7, t |-> 1770035416],
     [f |-> "ff", k |-> 9, s |-> 12, t |-> -1958414417],
     [f |-> "ff", k |-> 10, s |-> 17, t |-> -42063],
     [f |-> "ff", k |-> 11, s |-> 22, t |-> -1990404162],
     [f |-> "ff", k |-> 12, s |-> 7, t |-> 1804603682],
     [f |-> "ff", k |-> 13, s |-> 12, t |-> -40341101],
     [f |-> "ff", k |-> 14, s |-> 17, t |-> -1502002290],
     [f |-> "ff", k |-> 15, s |-> 22, t |-> 1236535329],
     [f |-> "gg", k |-> 1, s |-> 5, t |-> -165796510],
     [f |-> "gg", k |-> 6, s |-> 9, t |-> -1069501632],
     [f |-> "gg", k |-> 11, s |-> 14, t |-> 643717713],
     [f |-> "gg", k |-> 0, s |-> 20, t |-> -373897302],
     [f |-> "gg", k |-> 5, s |-> 5, t |-> -701558691],
     [f |-> "gg", k |-> 10, s |-> 9, t |-> 38016083],
     [f |-> "gg", k |-> 15, s |-> 14, t |-> -660478335],
     [f |-> "gg", k |-> 4, s |-> 20, t |-> -405537848],
     [f |-> "gg", k |-> 9, s |-> 5, t |-> 568446438],
     [f |-> "gg", k |-> 14, s |-> 9, t |-> -1019803690],
     [f |-> "gg", k |-> 3, s |-> 14, t |-> -187363961],
     [f |-> "gg", k |-> 8, s |-> 20, t |-> 1163531501],
     [f |-> "gg", k |-> 13, s |-> 5, t |-> -1444681467],
     [f |-> "gg", k |-> 2, s |-> 9, t |-> -51403784],
     [f |-> "gg", k |-> 7, s |-> 14, t |-> 1735328473],
     [f |-> "gg", k |-> 12, s |-> 20, t |-> -1926607734],
     [f |-> "hh", k |-> 5, s |-> 4, t |-> -378558],
     [f |-> "hh", k |-> 8, s |-> 11, t |-> -2022574463],
     [f |-> "hh", k |-> 11, s |-> 16, t |-> 1839030562],
     [f |-> "hh", k |-> 14, s |-> 23, t |-> -35309556],
     [f |-> "hh", k |-> 1, s |-> 4, t |-> -1530992060],
     [f |-> "hh", k |-> 4, s |-> 11, t |-> 1272893353],
     [f |-> "hh", k |-> 7, s |-> 16, t |-> -155497632],
     [f |-> "hh", k |-> 10, s |-> 23, t |-> -1094730640],
     [f |-> "hh", k |-> 13, s |-> 4, t |-> 681279174],
     [f |-> "hh", k |-> 0, s |-> 11, t |-> -358537222],
     [f |-> "hh", k |-> 3, s |-> 16, t |-> -722521979],
     [f |-> "hh", k |-> 6, s |-> 23, t |-> 76029189],
     [f |-> "hh", k |-> 9, s |-> 4, t |-> -640364487],
     [f |-> "hh", k |-> 12, s |-> 11, t |-> -421815835],
     [f |-> "hh", k |-> 15, s |-> 16, t |-> 530742520],
     [f |-> "hh", k |-> 2, s |-> 23, t |-> -995338651],
     [f |-> "ii", k |-> 0, s |-> 6, t |-> -198630844],
     [f |-> "ii", k |-> 7, s |-> 10, t |-> 1126891415],
     [f |-> "ii", k |-> 14, s |-> 15, t |-> -1416354905],
     [f |-> "ii", k |-> 5, s |-> 21, t |-> -57434055],
     [f |-> "ii", k |-> 12, s |-> 6, t |-> 1700485571],
     [f |-> "ii", k |-> 3, s |-> 10, t |-> -1894986606],
     [f |-> "ii", k |-> 10, s |-> 15, t |-> -1051523],
     [f |-> "ii", k |-> 1, s |-> 21, t |-> -2054922799],
     [f |-> "ii", k |-> 8, s |-> 6, t |-> 1873313359],
     [f |-> "ii", k |-> 15, s |-> 10, t |-> -30611744],
     [f |-> "ii", k |-> 6, s |-> 15, t |-> -1560198380],
     [f |-> "ii", k |-> 13, s |-> 21, t |-> 1309151649],
     [f |-> "ii", k |-> 4, s |-> 6, t |-> -145523070],
     [f |-> "ii", k |-> 11, s |-> 10, t |-> -1120210379],
     [f |-> "ii", k |-> 2, s |-> 15, t |-> 718787259],
     [f |-> "ii", k |-> 9, s |-> 21, t |-> -343485551] >>

\* one operation on its four registers, first the one it assigns
Operate(op, a, b, c, d, k) ==
  IF op.f = "ff" THEN ff(a, b, c, d, k[op.k + 1], op.s, Int32(op.t))
  ELSE IF op.f = "gg" THEN gg(a, b, c, d, k[op.k + 1], op.s, Int32(op.t))
  ELSE IF op.f = "hh" THEN hh(a, b, c, d, k[op.k + 1], op.s, Int32(op.t))
  ELSE ii(a, b, c, d, k[op.k + 1], op.s, Int32(op.t))

\* operation number i on the registers r = << a, b, c, d >>: the
\* operations assign a, d, c, b in turn
Operation(r, k, i) ==
  IF i % 4 = 1
  THEN [r EXCEPT ![1] = Operate(Operations[i], r[1], r[2], r[3], r[4], k)]
  ELSE IF i % 4 = 2
  THEN [r EXCEPT ![4] = Operate(Operations[i], r[4], r[1], r[2], r[3], k)]
  ELSE IF i % 4 = 3
  THEN [r EXCEPT ![3] = Operate(Operations[i], r[3], r[4], r[1], r[2], k)]
  ELSE [r EXCEPT ![2] = Operate(Operations[i], r[2], r[3], r[4], r[1], k)]

\* the operations from number i on.  Reading the four registers at each
\* step makes TLC evaluate them step by step
RECURSIVE RunOperations(_, _, _)
RunOperations(r, k, i) ==
  IF i > Len(Operations) \/ Len(r) # 4 THEN r
  ELSE RunOperations(Operation(r, k, i), k, i + 1)

\* x[j] = (x[j] + register) | 0
Accumulate(x, r) ==
  << Add(x[1], r[1]), Add(x[2], r[2]), Add(x[3], r[3]), Add(x[4], r[4]) >>

\* md5cycle(x, k): the state after one block; x is not changed in place
md5cycle(x, k) == Accumulate(x, RunOperations(x, k, 1))

\* four character codes, lowest byte first, as one integer
WordOf(c0, c1, c2, c3) == << c2 + (256 * c3), c0 + (256 * c1) >>

\* md5blk(s) for a chunk of 64 characters
md5blk(s) ==
  [w \in 1..16 |->
     WordOf(CharCode(s[4 * w - 3]), CharCode(s[4 * w - 2]),
            CharCode(s[4 * w - 1]), CharCode(s[4 * w])) ]

\* byte number j of the tail block of s: the characters, 0x80, zeros
TailByte(s, j) ==
  IF j <= Len(s) THEN CharCode(s[j]) ELSE IF j = Len(s) + 1 THEN 128 ELSE 0

\* lines 305-314: the tail with the characters left and the padding
TailBlock(s) ==
  [w \in 1..16 |->
     WordOf(TailByte(s, 4 * w - 3), TailByte(s, 4 * w - 2),
            TailByte(s, 4 * w - 1), TailByte(s, 4 * w)) ]

\* new Array(16).fill(0)
ZeroTail == [w \in 1..16 |-> << 0, 0 >>]

\* tail[14] = n * 8
WithLength(tail, n) == [tail EXCEPT ![15] = Int32(n * 8)]

\* lines 299-301: the full blocks of s from the one ending at i on
RECURSIVE Blocks(_, _, _)
Blocks(state, s, i) ==
  IF i > Len(s) THEN state
  ELSE Blocks(md5cycle(state, md5blk(SubSeq(s, i - 63, i))), s, i + 64)

\* lines 304-326, with the state after the full blocks and the rest of s
Finish(state, rest, n) ==
  IF Len(rest) > 55
  THEN md5cycle(md5cycle(state, TailBlock(rest)), WithLength(ZeroTail, n))
  ELSE md5cycle(state, WithLength(TailBlock(rest), n))

\* md51(s)
md51(s) ==
  Finish(Blocks(<< Int32(1732584193), Int32(-271733879),
                   Int32(-1732584194), Int32(271733878) >>, s, 64),
         SubSeq(s, (64 * (Len(s) \div 64)) + 1, Len(s)), Len(s))

\* '0123456789abcdef'.split('')
hex_chr ==
  << "0", "1", "2", "3", "4", "5", "6", "7", "8", "9",
     "a", "b", "c", "d", "e", "f" >>

\* the two digits of one byte, high nibble first
HexByte(b) == << hex_chr[(b \div 16) + 1], hex_chr[(b % 16) + 1] >>

\* rhex(n): the bytes of n, lowest first
rhex(n) ==
  HexByte(n[2] % 256) \o HexByte(n[2] \div 256)
  \o HexByte(n[1] % 256) \o HexByte(n[1] \div 256)

\* hex(x)
hex(x) == rhex(x[1]) \o rhex(x[2]) \o rhex(x[3]) \o rhex(x[4])

\* md5(s)
md5(s) == hex(md51(s))

\* variant of toId: the name is digested as written
toIdMutKeepCase(ns) == << "x" >> \o SubSeq(md5(ns), 1, 16)

\* toId(ns)
toId(ns) == << "x" >> \o SubSeq(md5(toLowerCase(ns)), 1, 16)

\* map[key] = value
Put(map, key, value) ==
  [k \in DOMAIN map \cup {key} |-> IF k = key THEN value ELSE map[k]]

\* lines.forEach(ns => { if (ns) map[toId(ns)] = ns; }), from line i on
RECURSIVE PreviewFrom(_, _, _)
PreviewFrom(map, lines, i) ==
  IF i > Len(lines) THEN map
  ELSE IF lines[i] = NoText THEN PreviewFrom(map, lines, i + 1)
  ELSE PreviewFrom(Put(map, toId(lines[i]), lines[i]), lines, i + 1)

\* renderPreview(lines): the mapping the preview shows
renderPreview(lines) == PreviewFrom(EmptyMap, lines, 1)

(***************************************************************************)
(* Bounds                                                                  *)
(***************************************************************************)
\* nodes ever allocated
MaxNodes == 24

\* steps of the page's scripts
MaxHostOps == 2

\* writes to chrome.storage
MaxWrites == 1

\* pieces a text of the Rewriter's check is made of
MaxPieces == 3

\* characters of a name typed into the options page
MaxNameLen == 2

(***************************************************************************)
(* State                                                                   *)
(***************************************************************************)
VARIABLES
  dom,          \* the DOM heap
  idMap,        \* let idMap
  replaceMode,  \* let replaceMode
  lastIndex,    \* ID_REGEX.lastIndex
  records,      \* the record queue of the MutationObserver
  observing,    \* obs.observe(...) was called
  pc,           \* "loading" until the storage.get callback has run
  storage,      \* chrome.storage.local: idMap and replaceMode
  calls,        \* history: calls of annotateOrReplaceTextNode, last handler
  threw,        \* history: the last handler ended by an exception
  handled,      \* history: records the last callback handled to the end
  batch,        \* history: the records the last callback was given
  changed,      \* history: the area and changes the listener was given last
  last,         \* history: the step taken last
  hostOps,      \* steps of the page so far
  writes,       \* storage writes so far
  options       \* the options page: lines typed, preview shown

vars == << dom, idMap, replaceMode, lastIndex, records, observing, pc,
           storage, calls, threw, handled, batch, changed, last, hostOps,
           writes, options >>

\* the machine at the start of a handler
Machine ==
  [dom |-> dom, idMap |-> idMap, replaceMode |-> replaceMode,
   lastIndex |-> lastIndex, records |-> records, observing |-> observing,
   calls |-> << >>, threw |-> FALSE, handled |-> 0]

\* the state a handler leaves
Commit(m) ==
  /\ Len(m.dom) <= MaxNodes
  /\ dom' = m.dom
  /\ idMap' = m.idMap
  /\ replaceMode' = m.replaceMode
  /\ lastIndex' = m.lastIndex
  /\ records' = m.records
  /\ observing' = m.observing
  /\ calls' = m.calls
  /\ threw' = m.threw
  /\ handled' = m.handled

\* no call of the onChanged listener
NoChange == [area |-> "none", changes |-> [idMap |-> None, replaceMode |-> None]]

\* <html><body></body></html>
EmptyDocument ==
  << [ElementNode("HTML", 0, "host") EXCEPT !.childNodes = << Body >>],
     [ElementNode("BODY", 0, "host") EXCEPT !.parentNode = DocumentElement] >>

InitialStorages ==
  {[idMap |-> i, replaceMode |-> r] :
     i \in {None, Some(MapA)}, r \in {None, Some(TRUE), Some(FALSE)}}

\* the script was evaluated: globals set, storage.get pending, listener on
InitWith(d, stores) ==
  /\ dom = d
  /\ idMap = EmptyMap
  /\ replaceMode = TRUE
  /\ lastIndex = 0
  /\ records = << >>
  /\ observing = FALSE
  /\ pc = "loading"
  /\ storage \in stores
  /\ calls = << >>
  /\ threw = FALSE
  /\ handled = 0
  /\ batch = << >>
  /\ changed = NoChange
  /\ last = "load"
  /\ hostOps = 0
  /\ writes = 0

\* the options page is not open
NotOpened == [step |-> "closed", lines |-> << >>, preview |-> EmptyMap]

Init == InitWith(EmptyDocument, InitialStorages) /\ options = NotOpened

(***************************************************************************)
(* Handlers of the content script                                          *)
(***************************************************************************)
\* lines 200-203: the globals set from the stored content
Load(m, data) ==
  [m EXCEPT !.idMap = IF data.idMap.some THEN data.idMap.value ELSE EmptyMap,
            !.replaceMode = IF data.replaceMode.some
                            THEN data.replaceMode.value
                            ELSE TRUE]

\* line 209: observe() is reached when walk has returned
ThenObserve(walked) == IF walked.threw THEN walked ELSE observe(walked)

\* variant of OnLoaded: observe() is called before walk(document.body)
OnLoadedMutObserveFirst(m, data) == walk(observe(Load(m, data)), Body)

\* lines 199-209: the body of the callback, given the stored content
OnLoaded(m, data) == ThenObserve(walk(Load(m, data), Body))

\* the callback of chrome.storage.local.get(['idMap', 'replaceMode']):
\* data is the stored content
Bootstrap ==
  /\ pc = "loading"
  /\ Commit(OnLoaded(Machine, storage))
  /\ pc' = "running"
  /\ batch' = << >>
  /\ changed' = NoChange
  /\ last' = "Bootstrap"
  /\ UNCHANGED << storage, hostOps, writes, options >>

\* variant of onChanged: an update of either key resets the other
onChangedMutResetOther(m, changes, area) ==
  IF area # "local" THEN m
  ELSE [m EXCEPT
          !.idMap = IF changes.idMap.some
                    THEN IF changes.idMap.value.some
                         THEN changes.idMap.value.value
                         ELSE EmptyMap
                    ELSE IF changes.replaceMode.some THEN EmptyMap ELSE @,
          !.replaceMode = IF changes.replaceMode.some
                          THEN changes.replaceMode.value.some
                               /\ changes.replaceMode.value.value
                          ELSE IF changes.idMap.some THEN TRUE ELSE @]

\* variant of onChanged: the update is not taken
onChangedMutIgnored(m, changes, area) == m

\* variant of onChanged: the body is walked again after an update
onChangedMutRescan(m, changes, area) ==
  IF area # "local" THEN m
  ELSE walk([m EXCEPT
               !.idMap = IF changes.idMap.some
                         THEN IF changes.idMap.value.some
                              THEN changes.idMap.value.value
                              ELSE EmptyMap
                         ELSE @,
               !.replaceMode = IF changes.replaceMode.some
                               THEN changes.replaceMode.value.some
                                    /\ changes.replaceMode.value.value
                               ELSE @], Body)

\* the listener of chrome.storage.onChanged; a change is None when the
\* key is not in `changes`, else Some(newValue), with newValue itself
\* None when the key was removed
onChanged(m, changes, area) ==
  IF area # "local" THEN m
  ELSE [m EXCEPT
          !.idMap = IF changes.idMap.some
                    THEN IF changes.idMap.value.some
                         THEN changes.idMap.value.value
                         ELSE EmptyMap
                    ELSE @,
          !.replaceMode = IF changes.replaceMode.some
                          THEN changes.replaceMode.value.some
                               /\ changes.replaceMode.value.value
                          ELSE @]

\* what a key of the storage may be set to
StoredMaps == {None, Some(MapA)}

StoredModes == {None, Some(TRUE), Some(FALSE)}

\* what a write does to a key: None leaves it alone, Some(v) sets it to v
MapWrites == {None} \cup {Some(v) : v \in StoredMaps}

ModeWrites == {None} \cup {Some(v) : v \in StoredModes}

\* the `changes` object of a write: a key is in it when its value changes
Changes(area, newMap, newMode) ==
  [idMap |-> IF newMap.some /\ (area # "local" \/ newMap.value # storage.idMap)
             THEN newMap ELSE None,
   replaceMode |-> IF newMode.some /\ (area # "local"
                                       \/ newMode.value # storage.replaceMode)
                   THEN newMode ELSE None]

\* the stored content of the local area after a write with these changes
Stored(changes) ==
  [idMap |-> IF changes.idMap.some THEN changes.idMap.value
             ELSE storage.idMap,
   replaceMode |-> IF changes.replaceMode.some THEN changes.replaceMode.value
                   ELSE storage.replaceMode]

\* a write to a storage area, followed by the listener
StorageChanged(area, newMap, newMode) ==
  /\ writes < MaxWrites
  /\ Commit(onChanged(Machine, Changes(area, newMap, newMode), area))
  /\ storage' = IF area = "local"
                THEN Stored(Changes(area, newMap, newMode))
                ELSE storage
  /\ writes' = writes + 1
  /\ batch' = << >>
  /\ changed' = [area |-> area, changes |-> Changes(area, newMap, newMode)]
  /\ last' = "StorageChanged"
  /\ UNCHANGED << pc, hostOps, options >>

\* the MutationObserver callback on the queued records.  The queue is
\* emptied before the callback runs; an exception ends the callback and
\* the rest of the batch is lost
Deliver ==
  /\ observing
  /\ records # << >>
  /\ Commit(HandleBatch([Machine EXCEPT !.records = << >>], records, 1))
  /\ batch' = records
  /\ changed' = NoChange
  /\ last' = "Deliver"
  /\ UNCHANGED << pc, storage, hostOps, writes, options >>

(***************************************************************************)
(* The page's scripts                                                      *)
(***************************************************************************)
\* nodes of the document the page made
HostNodes(d) ==
  {n \in 1..Len(d) : d[n].role = "host" /\ InDocument(d, n)}

HostStep(m) ==
  /\ hostOps' = hostOps + 1
  /\ Commit(m)
  /\ batch' = << >>
  /\ changed' = NoChange
  /\ last' = "Host"
  /\ UNCHANGED << pc, storage, writes, options >>

\* parent.appendChild(subtree)
HostAppend(parent, desc) ==
  /\ hostOps < MaxHostOps
  /\ parent \in HostNodes(dom) \ {DocumentElement}
  /\ dom[parent].nodeType = "ELEMENT"
  /\ LET n == Len(dom) + 1
     IN  HostStep([Machine EXCEPT
                     !.dom = Attach(dom, parent, desc),
                     !.records = IF Observed(Machine, parent)
                                 THEN Append(@, ChildListRecord(parent,
                                                    << n >>, << >>))
                                 ELSE @])

\* text.nodeValue = data
HostSetText(n, data) ==
  /\ hostOps < MaxHostOps
  /\ n \in HostNodes(dom)
  /\ dom[n].nodeType = "TEXT"
  /\ HostStep([Machine EXCEPT
                 !.dom[n].nodeValue = data,
                 !.records = IF Observed(Machine, n)
                             THEN Append(@, CharacterDataRecord(n))
                             ELSE @])

\* node.remove()
HostRemove(n) ==
  /\ hostOps < MaxHostOps
  /\ n \in HostNodes(dom) \ {DocumentElement, Body}
  /\ LET parent == dom[n].parentNode
         kids   == dom[parent].childNodes
         i      == ChildIndex(dom, n)
     IN  HostStep([Machine EXCEPT
                     !.dom[parent].childNodes =
                        SubSeq(kids, 1, i - 1) \o SubSeq(kids, i + 1, Len(kids)),
                     !.dom[n].parentNode = Null,
                     !.records = IF Observed(Machine, parent)
                                 THEN Append(@, ChildListRecord(parent,
                                                    << >>, << n >>))
                                 ELSE @])

Next ==
  \/ Bootstrap
  \/ \E area \in {"local", "sync"}, newMap \in MapWrites,
        newMode \in ModeWrites : StorageChanged(area, newMap, newMode)
  \/ Deliver
  \/ \E parent \in 1..Len(dom), desc \in HostSubtrees :
        HostAppend(parent, desc)
  \/ \E n \in 1..Len(dom), data \in HostTexts : HostSetText(n, data)
  \/ \E n \in 1..Len(dom) : HostRemove(n)

Spec == Init /\ [][Next]_vars

(***************************************************************************)
(* The Scanner and the Rewriter on their own: the page holds one text      *)
(* leaf, any text made of a few pieces, and the initial pass rewrites it   *)
(***************************************************************************)
\* "see xabc0000000000001 xabc0000000000002 now"
SeeAB == See \o TokA \o << " " >> \o TokB \o Now

\* yxabc0000000000001: a token inside a longer alphanumeric run
Embedded == << "y" >> \o TokA

Pieces ==
  {TokA, TokB, Embedded, UpperTok, ShortTok, << " " >>, << "-" >>, << "0" >>}

RewriteTexts ==
  {Concat(ps) : ps \in UNION {[1..k -> Pieces] : k \in 0..MaxPieces}}
  \cup {SeeA, SeeB, SeeAB}

RewriteStorages ==
  {[idMap |-> i, replaceMode |-> r] :
     i \in {None, Some(MapA), Some(MapAB)},
     r \in {None, Some(TRUE), Some(FALSE)}}

InitRewrite ==
  /\ \E t \in RewriteTexts :
       InitWith(Attach(EmptyDocument, Body, Txt(t)), RewriteStorages)
  /\ options = NotOpened

NextRewrite == Bootstrap

SpecRewrite == InitRewrite /\ [][NextRewrite]_vars

(***************************************************************************)
(* toId on its own: one or two names are in the textarea of the options    *)
(* page and the input listener renders the preview                         *)
(***************************************************************************)
\* the characters names are typed with
NameChars == {"a", "A", "b"}

\* the names of n characters
RECURSIVE NamesOfLen(_)
NamesOfLen(n) ==
  IF n = 0 THEN {NoText}
  ELSE {Append(name, c) : name \in NamesOfLen(n - 1), c \in NameChars}

Names == UNION {NamesOfLen(n) : n \in 1..MaxNameLen}

\* the trimmed non-empty lines of the textarea
NameLists == {<< n >> : n \in Names} \cup {<< n1, n2 >> : n1, n2 \in Names}

\* lines 110-116: the input listener of the textarea, with the lines typed
OptionsInput ==
  /\ options.step = "typed"
  /\ options' = [options EXCEPT !.step = "shown",
                                !.preview = renderPreview(options.lines)]
  /\ UNCHANGED << dom, idMap, replaceMode, lastIndex, records, observing, pc,
                  storage, calls, threw, handled, batch, changed, last,
                  hostOps, writes >>

InitOptions ==
  /\ InitWith(EmptyDocument, {[idMap |-> None, replaceMode |-> None]})
  /\ \E lines \in NameLists :
       options = [step |-> "typed", lines |-> lines, preview |-> EmptyMap]

NextOptions == OptionsInput

SpecOptions == InitOptions /\ [][NextOptions]_vars

(***************************************************************************)
(* The options page next to a content script: the page is opened, the      *)
(* checkbox may be clicked, Save writes to chrome.storage.local and the    *)
(* content script's onChanged listener is called with the changes.         *)
(***************************************************************************)
\* the options page before its storage.get callback: the elements as the
\* document gives them
PageClosed ==
  [step |-> "closed", lines |-> << >>, preview |-> EmptyMap,
   checked |-> FALSE, touched |-> FALSE]

\* lists of names an earlier Save may have stored
StoredLists == {None, Some(<< << "a" >> >>), Some(<< << "a", "b" >> >>)}

\* chrome.storage.local with the three keys of the options page
PageStorages ==
  {[idMap |-> i, replaceMode |-> r, namespaceList |-> l] :
     i \in StoredMaps, r \in StoredModes, l \in StoredLists}

\* options.js line 100: data.namespaceList || []
ListOf(data) ==
  IF data.namespaceList.some THEN data.namespaceList.value ELSE << >>

\* options.js line 103: !!data.replaceMode
CheckedOf(data) == data.replaceMode.some /\ data.replaceMode.value

\* options.js lines 99-104: the callback of
\* chrome.storage.local.get(['namespaceList', 'replaceMode'])
OptionsLoaded ==
  /\ options.step = "closed"
  /\ options' = [options EXCEPT !.step = "loaded",
                                !.lines = ListOf(storage),
                                !.preview = renderPreview(ListOf(storage)),
                                !.checked = CheckedOf(storage)]
  /\ last' = "OptionsLoaded"
  /\ changed' = NoChange
  /\ UNCHANGED << dom, idMap, replaceMode, lastIndex, records, observing, pc,
                  storage, calls, threw, handled, batch, hostOps, writes >>

\* the user clicks the checkbox
OptionsToggle ==
  /\ options.step = "loaded"
  /\ options' = [options EXCEPT !.checked = ~@, !.touched = TRUE]
  /\ last' = "OptionsToggle"
  /\ changed' = NoChange
  /\ UNCHANGED << dom, idMap, replaceMode, lastIndex, records, observing, pc,
                  storage, calls, threw, handled, batch, hostOps, writes >>

\* options.js lines 132-133: the idMap of a list of names
IdMapOf(list) == PreviewFrom(EmptyMap, list, 1)

\* options.js lines 135-137: what Save sets idMap and replaceMode to
SavedChanges(page) ==
  Changes("local", Some(Some(IdMapOf(page.lines))), Some(Some(page.checked)))

\* options.js lines 126-142: the click handler of Save, followed by the
\* content script's listener with the keys whose value changed
OptionsSave ==
  /\ options.step = "loaded"
  /\ writes < MaxWrites
  /\ Commit(onChanged(Machine, SavedChanges(options), "local"))
  /\ storage' = [idMap |-> Stored(SavedChanges(options)).idMap,
                 replaceMode |-> Stored(SavedChanges(options)).replaceMode,
                 namespaceList |-> Some(options.lines)]
  /\ writes' = writes + 1
  /\ batch' = << >>
  /\ changed' = [area |-> "local", changes |-> SavedChanges(options)]
  /\ last' = "OptionsSave"
  /\ UNCHANGED << pc, hostOps, options >>

InitPage == InitWith(EmptyDocument, PageStorages) /\ options = PageClosed

NextPage ==
  \/ Bootstrap
  \/ OptionsLoaded
  \/ OptionsToggle
  \/ OptionsSave

SpecPage == InitPage /\ [][NextPage]_vars

(***************************************************************************)
(* What the properties are stated with                                     *)
(***************************************************************************)
\* an occurrence of the token grammar at 0-based offset p of text, said
\* without the regular expression: x, 16 characters of 0-9a-f, and no
\* alphanumeric/underscore neighbour
IsOccurrence(text, p) ==
  /\ p >= 0
  /\ p + TokenLen <= Len(text)
  /\ text[p + 1] = "x"
  /\ \A k \in 2..TokenLen : text[p + k] \in HexChars
  /\ (p > 0 => text[p] \notin WordChars)
  /\ (p + TokenLen < Len(text) => text[p + TokenLen + 1] \notin WordChars)

Occurrences(text) == {p \in 0..Len(text) : IsOccurrence(text, p)}

\* a finite set of numbers in increasing order
RECURSIVE Sorted(_)
Sorted(S) ==
  IF S = {} THEN << >>
  ELSE LET least == CHOOSE x \in S : \A y \in S : x <= y
       IN  << least >> \o Sorted(S \ {least})

\* the token at offset p
TokenAt(text, p) == SubSeq(text, p + 1, p + TokenLen)

\* the text before occurrence number j, after the one before it; piece
\* number Len(occ) + 1 is the text after the last occurrence
PieceBefore(text, occ, j) ==
  SubSeq(text,
         IF j = 1 THEN 1 ELSE occ[j - 1] + TokenLen + 1,
         IF j = Len(occ) + 1 THEN Len(text) ELSE occ[j])

\* the text a described node shows
RECURSIVE Shown(_)
Shown(desc) ==
  IF desc.nodeType = "TEXT" THEN desc.nodeValue
  ELSE IF desc.nodeType # "ELEMENT" THEN NoText
  ELSE Concat([i \in 1..Len(desc.childNodes) |-> Shown(desc.childNodes[i])])

\* the text a fragment shows
Rendered(frag) == Concat([i \in 1..Len(frag) |-> Shown(frag[i])])

\* the text leaves of a described node
RECURSIVE LeafTexts(_)
LeafTexts(desc) ==
  IF desc.nodeType = "TEXT" THEN {desc.nodeValue}
  ELSE UNION {LeafTexts(desc.childNodes[i]) : i \in 1..Len(desc.childNodes)}

\* the calls of the last handler that replaced their node
Replaced == {i \in DOMAIN calls : calls[i].outcome = "replaced"}

Mapped(c, id) == id \in DOMAIN c.idMap /\ c.idMap[id] # NoText

\* no display name of the mapping holds a token
NamesTokenFree(map) == \A id \in DOMAIN map : Occurrences(map[id]) = {}

\* "  (namespace: <ns>)"
Suffix(ns) ==
  << " ", " ", "(" >> \o << "n", "a", "m", "e", "s", "p", "a", "c", "e" >>
  \o << ":", " " >> \o ns \o << ")" >>

\* "see teams-prod now"
SeeTeamsProdNow ==
  << "s", "e", "e", " ", "t", "e", "a", "m", "s", "-", "p", "r", "o", "d",
     " ", "n", "o", "w" >>

(***************************************************************************)
(* Properties                                                              *)
(***************************************************************************)
\* C1: self-triggered feedback terminates after one generation per
\* original match: with every matched token in the mapping and no token
\* in a display name, in either mode, a text leaf the Rewriter itself
\* made (other than the fallback leaf of an unmapped token) is never
\* rewritten again, so the callbacks caused by a replacement replace
\* nothing and the record queue runs empty.
C1_SelfFeedbackEnds ==
  \A i \in DOMAIN calls :
    LET c == calls[i]
    IN  (/\ c.gen >= 1
         /\ c.role # "unmapped"
         /\ NamesTokenFree(c.idMap)
         /\ \A p \in Occurrences(c.text) : Mapped(c, TokenAt(c.text, p)))
        => c.outcome = "noMatch"

\* C2: bounded idempotence: the text leaves of the element the Rewriter
\* emits for a mapped token (the <abbr> of Translate, the annotated
\* <span> of Annotate) hold no further match, so a second pass over the
\* fragment finds nothing to do.
C2_FragmentHasNoMatch ==
  \A i \in Replaced :
    LET c == calls[i]
    IN  NamesTokenFree(c.idMap) =>
          \A j \in DOMAIN c.frag :
            c.frag[j].nodeType = "ELEMENT" =>
              \A t \in LeafTexts(c.frag[j]) : Occurrences(t) = {}

\* C3: editable exclusion: no text leaf inside an INPUT or TEXTAREA
\* element is ever replaced, on whichever path the engine reaches it.
C3_EditableNeverReplaced ==
  \A i \in Replaced :
    \A j \in DOMAIN calls[i].path : calls[i].path[j] \notin EditableTags

\* the roots the last handler walked to the end: the body in the initial
\* pass, the added elements of a callback that returned
WalkedRoots ==
  IF last = "Bootstrap" THEN {Body}
  ELSE IF last = "Deliver" /\ ~threw
    THEN {n \in 1..Len(dom) :
            /\ dom[n].nodeType = "ELEMENT"
            /\ \E i \in DOMAIN batch :
                 \E j \in DOMAIN batch[i].addedNodes :
                   batch[i].addedNodes[j] = n}
  ELSE {}

\* n has an INPUT or TEXTAREA among itself and its ancestors
InEditable(d, n) ==
  \E j \in DOMAIN Ancestors(d, n) :
    d[Ancestors(d, n)[j]].tagName \in EditableTags

\* C4: Walker completeness: when walk(root) has returned, no text leaf of
\* the page that is in root's subtree and outside INPUT/TEXTAREA still
\* holds a token match: each such leaf was replaced by its fragment,
\* the siblings after a rewritten leaf included.
C4_WalkComplete ==
  \A root \in WalkedRoots :
    \A k \in DOMAIN TextLeaves(dom, root) :
      LET n == TextLeaves(dom, root)[k]
      IN  (dom[n].role = "host" /\ ~InEditable(dom, n))
            => Occurrences(dom[n].nodeValue) = {}

\* C5: batch handling is total: the callback raises no error and handles
\* every record of its batch, whatever the batch.
C5_BatchHandledToTheEnd ==
  last = "Deliver" => (~threw /\ handled = Len(batch))

\* the offsets of the occurrences in the text of call c, in order
Occ(c) == Sorted(Occurrences(c.text))

\* C6: rewrite completeness: the fragment made for a text leaf with k
\* matches has 2k+1 nodes, and its odd-numbered nodes are text leaves
\* that hold, in order, the original substrings before, between and
\* after the matched spans.
C6_PlainPiecesPreserved ==
  \A i \in Replaced :
    LET c == calls[i]
    IN  /\ Len(c.frag) = 2 * Len(Occ(c)) + 1
        /\ \A j \in 1..(Len(Occ(c)) + 1) :
             /\ c.frag[2 * j - 1].nodeType = "TEXT"
             /\ c.frag[2 * j - 1].nodeValue = PieceBefore(c.text, Occ(c), j)

C6_Witness ==
  \E i \in Replaced :
    /\ calls[i].text = SeeAB
    /\ Len(calls[i].frag) = 5
    /\ calls[i].frag[1].nodeValue = See
    /\ calls[i].frag[3].nodeValue = << " " >>
    /\ calls[i].frag[5].nodeValue = Now

\* C7: Translate policy: in Translate mode the node emitted for a mapped
\* token is one element that shows the display name and nothing else
\* and keeps the token as its title; "see xabc0000000000001 now" with
\* xabc0000000000001 -> teams-prod shows "see teams-prod now".
C7_TranslateShowsName ==
  \A i \in Replaced :
    LET c == calls[i]
    IN  c.replaceMode =>
          /\ \A j \in 1..Len(Occ(c)) :
               LET id == TokenAt(c.text, Occ(c)[j])
                   e  == c.frag[2 * j]
               IN  Mapped(c, id) =>
                     /\ e.nodeType = "ELEMENT"
                     /\ Shown(e) = c.idMap[id]
                     /\ e.title = id
          /\ (c.text = SeeA /\ Mapped(c, TokA) /\ c.idMap[TokA] = TeamsProd)
               => Rendered(c.frag) = SeeTeamsProdNow

C7_Witness ==
  \E i \in Replaced :
    /\ calls[i].replaceMode
    /\ calls[i].text = SeeA
    /\ Mapped(calls[i], TokA)
    /\ Rendered(calls[i].frag) = SeeTeamsProdNow
    /\ calls[i].frag[2].title = TokA

\* C8: Annotate policy: in Annotate mode the node emitted for a mapped
\* token shows the token, then two spaces and "(namespace: <name>)";
\* "see xabc0000000000001 now" shows
\* "see xabc0000000000001  (namespace: teams-prod) now".
C8_AnnotateShowsTokenAndSuffix ==
  \A i \in Replaced :
    LET c == calls[i]
    IN  ~c.replaceMode =>
          /\ \A j \in 1..Len(Occ(c)) :
               LET id == TokenAt(c.text, Occ(c)[j])
                   e  == c.frag[2 * j]
               IN  Mapped(c, id) =>
                     /\ e.nodeType = "ELEMENT"
                     /\ Shown(e) = id \o Suffix(c.idMap[id])
          /\ (c.text = SeeA /\ Mapped(c, TokA) /\ c.idMap[TokA] = TeamsProd)
               => Rendered(c.frag) = See \o TokA \o Suffix(TeamsProd) \o Now

C8_Witness ==
  \E i \in Replaced :
    /\ ~calls[i].replaceMode
    /\ calls[i].text = SeeA
    /\ Mapped(calls[i], TokA)
    /\ Rendered(calls[i].frag) = See \o TokA \o Suffix(TeamsProd) \o Now

\* C9: unknown-token passthrough: in both modes the node emitted for a
\* token without mapping entry is a text leaf that holds the token, and
\* a leaf whose tokens are all unmapped shows the same text after the
\* rewrite as before.
C9_UnknownTokenVerbatim ==
  \A i \in Replaced :
    LET c == calls[i]
    IN  /\ \A j \in 1..Len(Occ(c)) :
             LET id == TokenAt(c.text, Occ(c)[j])
             IN  id \notin DOMAIN c.idMap =>
                   /\ c.frag[2 * j].nodeType = "TEXT"
                   /\ c.frag[2 * j].nodeValue = id
        /\ (\A p \in Occurrences(c.text) :
              TokenAt(c.text, p) \notin DOMAIN c.idMap)
             => /\ Rendered(c.frag) = c.text
                /\ \A j \in DOMAIN c.frag : c.frag[j].nodeType = "TEXT"

C9_Witness ==
  \E i \in Replaced :
    /\ calls[i].text = SeeB
    /\ TokB \notin DOMAIN calls[i].idMap
    /\ ~calls[i].replaceMode
    /\ calls[i].frag[2].nodeType = "TEXT"
    /\ Rendered(calls[i].frag) = SeeB

\* C10: Scanner correctness: the matches reported for a text are exactly
\* its occurrences of x and 16 characters of 0-9a-f without
\* alphanumeric/underscore neighbour, by increasing offset and without
\* overlap; a text without occurrence gives no match and its node stays
\* as it was.
C10_ScannerReportsOccurrences ==
  \A i \in DOMAIN calls :
    LET c == calls[i]
    IN  c.outcome # "notText" =>
          /\ {c.matches[j].index : j \in DOMAIN c.matches}
               = Occurrences(c.text)
          /\ \A j \in DOMAIN c.matches :
               c.matches[j].id = TokenAt(c.text, c.matches[j].index)
          /\ \A j \in 1..(Len(c.matches) - 1) :
               c.matches[j].index + TokenLen <= c.matches[j + 1].index
          /\ (c.outcome = "noMatch") = (Occurrences(c.text) = {})
          /\ c.outcome = "noMatch" =>
               /\ dom[c.node].nodeValue = c.text
               /\ dom[c.node].parentNode = c.parent

\* a reported token next to an unreported one inside an alphanumeric run
C10_Witness ==
  \E i \in Replaced :
    /\ calls[i].text = TokA \o << " " >> \o Embedded
    /\ Len(calls[i].matches) = 1
    /\ calls[i].matches[1].index = 0
    /\ TokenShapeAt(calls[i].text, TokenLen + 2)



\* the added nodes and the characterData targets of a batch
AddedNodes(mutations) ==
  UNION {{mutations[i].addedNodes[j] : j \in DOMAIN mutations[i].addedNodes} :
           i \in DOMAIN mutations}

Targets(mutations) ==
  {mutations[i].target :
     i \in {k \in DOMAIN mutations : mutations[k].type = "characterData"}}

\* n is in the subtree of root
Within(d, root, n) == \E j \in DOMAIN Ancestors(d, n) : Ancestors(d, n)[j] = root

\* the text leaves of root's subtree that hold a token match
MatchingLeaves(d, root) ==
  {TextLeaves(d, root)[k] : k \in
     {k \in DOMAIN TextLeaves(d, root) :
        Occurrences(d[TextLeaves(d, root)[k]].nodeValue) # {}}}

\* an INPUT or TEXTAREA among n and its ancestors up to root
EditableWithin(d, root, n) ==
  \E j \in DOMAIN Ancestors(d, n) :
    /\ Within(d, root, Ancestors(d, n)[j])
    /\ d[Ancestors(d, n)[j]].tagName \in EditableTags

\* the batch is one record that adds one element of d
AddsOneElement(d, mutations) ==
  /\ Len(mutations) = 1
  /\ mutations[1].type = "childList"
  /\ Len(mutations[1].addedNodes) = 1
  /\ d[mutations[1].addedNodes[1]].nodeType = "ELEMENT"

\* the subtree of e holds one text leaf with a token match, and that leaf
\* is not inside an INPUT or TEXTAREA of the subtree
OneMatchingLeaf(d, e) ==
  /\ Cardinality(MatchingLeaves(d, e)) = 1
  /\ \A leaf \in MatchingLeaves(d, e) : ~EditableWithin(d, e, leaf)

\* from d to after, the callback with the calls of log replaced the
\* matching leaves of e, and changed and made nodes in e's subtree only
RewroteWithin(d, after, log, e) ==
  /\ {log[i].node : i \in {k \in DOMAIN log : log[k].outcome = "replaced"}}
       = MatchingLeaves(d, e)
  /\ \A n \in 1..Len(d) : ~Within(d, e, n) => after[n] = d[n]
  /\ \A n \in (Len(d) + 1)..Len(after) : Within(after, e, n)

\* every replaced node of the last callback was reached from its batch
OnlyFromBatch(log, mutations) ==
  \A i \in DOMAIN log :
    log[i].outcome = "replaced" =>
      \/ log[i].node \in AddedNodes(mutations)
      \/ log[i].node \in Targets(mutations)
      \/ \E j \in DOMAIN log[i].ancestors :
           /\ log[i].ancestors[j] \in AddedNodes(mutations)
           /\ log[i].ancestors[j] # log[i].node

\* C11: locality of dynamic updates: a callback replaces only text leaves
\* that are an added node, a descendant of an added element or the target
\* of a characterData record of its batch; and on a batch of one record
\* adding one element whose subtree holds exactly one text leaf with a
\* token match (outside INPUT/TEXTAREA), the callback replaces exactly
\* that leaf and leaves every node outside the added subtree as it was.
C11_UpdatesAreLocal ==
  [][ last' = "Deliver" =>
        /\ OnlyFromBatch(calls', batch')
        /\ (/\ AddsOneElement(dom, batch')
            /\ OneMatchingLeaf(dom, batch'[1].addedNodes[1]))
           => RewroteWithin(dom, dom', calls', batch'[1].addedNodes[1]) ]_vars

\* a callback on one added element replaced one leaf nested in it, while
\* the page holds other text
C11_Witness ==
  /\ last = "Deliver"
  /\ AddsOneElement(dom, batch)
  /\ \E e \in {batch[1].addedNodes[1]} :
       /\ Cardinality(Replaced) = 1
       /\ \A i \in Replaced :
            /\ calls[i].node # e
            /\ \E j \in DOMAIN calls[i].ancestors : calls[i].ancestors[j] = e
       /\ \A leaf \in MatchingLeaves(dom, e) : dom[leaf].role # "host"
       /\ \E n \in 1..Len(dom) :
            /\ dom[n].nodeType = "TEXT"
            /\ InDocument(dom, n)
            /\ ~Within(dom, e, n)

\* C12: partial updates: when the listener is called, a change that
\* carries no idMap leaves the engine's idMap as it was, a change that
\* carries no replaceMode leaves replaceMode as it was, and a change of an
\* area other than 'local' leaves both as they were.
C12_PartialUpdates ==
  [][ last' = "StorageChanged" =>
        /\ ~changed'.changes.idMap.some => idMap' = idMap
        /\ ~changed'.changes.replaceMode.some => replaceMode' = replaceMode
        /\ changed'.area # "local" =>
             (idMap' = idMap /\ replaceMode' = replaceMode) ]_vars

\* the listener took a mapping alone from the local area while the mode
\* was the one that is not the default, or a mode alone while the mapping
\* was not empty
C12_Witness ==
  /\ last = "StorageChanged"
  /\ pc = "running"
  /\ changed.area = "local"
  /\ \/ /\ changed.changes.idMap.some
        /\ ~changed.changes.replaceMode.some
        /\ idMap = MapA
        /\ ~replaceMode
     \/ /\ changed.changes.replaceMode.some
        /\ ~changed.changes.idMap.some
        /\ idMap = MapA
        /\ ~replaceMode

\* C13: missing values keep prior state: when the listener is given a
\* change of the local area whose new value is undefined (the key was
\* removed), the engine keeps the idMap, and the replaceMode, it had.
C13_MissingValuesKeepPrior ==
  [][ (last' = "StorageChanged" /\ changed'.area = "local") =>
        /\ (changed'.changes.idMap.some /\ ~changed'.changes.idMap.value.some)
             => idMap' = idMap
        /\ (/\ changed'.changes.replaceMode.some
            /\ ~changed'.changes.replaceMode.value.some)
             => replaceMode' = replaceMode ]_vars

\* C14: no retroactive re-scan: a call of the onChanged listener leaves
\* the document tree as it was, fragments rewritten under the old values
\* included, calls annotateOrReplaceTextNode for no node, and queues no
\* record; of the engine's variables only idMap and replaceMode may change.
C14_NoRescanOnUpdate ==
  [][ last' = "StorageChanged" =>
        /\ dom' = dom
        /\ calls' = << >>
        /\ records' = records
        /\ lastIndex' = lastIndex
        /\ observing' = observing ]_vars

\* the listener took a mapping for a token that the document shows in a
\* fragment made while the token was unmapped
C14_Witness ==
  /\ last = "StorageChanged"
  /\ pc = "running"
  /\ changed.area = "local"
  /\ changed.changes.idMap.some
  /\ idMap = MapA
  /\ \E n \in 1..Len(dom) :
       /\ InDocument(dom, n)
       /\ dom[n].role = "unmapped"
       /\ dom[n].nodeValue = TokA

\* the globals the stored content makes
LoadedMap == IF storage.idMap.some THEN storage.idMap.value ELSE EmptyMap

LoadedMode ==
  IF storage.replaceMode.some THEN storage.replaceMode.value ELSE TRUE

\* C15: startup ordering: until the stored mapping and mode are loaded no
\* node is rewritten, no record is queued and the observer is not
\* registered; the callback that loads them runs once and makes every
\* call of its walk with the loaded values; the observer is registered
\* when that walk has returned, so the walk's own replacements queue no
\* record, and a batch is handled only after the initial pass.
C15_StartupOrdering ==
  /\ [](pc = "loading" =>
          /\ ~observing
          /\ records = << >>
          /\ calls = << >>
          /\ \A n \in 1..Len(dom) : dom[n].gen = 0)
  /\ [](last = "Bootstrap" =>
          /\ idMap = LoadedMap
          /\ replaceMode = LoadedMode
          /\ \A i \in DOMAIN calls :
               calls[i].idMap = idMap /\ calls[i].replaceMode = replaceMode
          /\ records = << >>
          /\ observing = ~threw)
  /\ [](last = "Deliver" => pc = "running")
  /\ [][ /\ last' = "Bootstrap" => (pc = "loading" /\ ~observing)
         /\ pc = "running" => pc' = "running"
         /\ observing' # observing => last' = "Bootstrap" ]_vars

\* the initial pass replaced a text leaf with the loaded mapping and the
\* observer was registered after it
C15_Witness ==
  /\ last = "Bootstrap"
  /\ observing
  /\ idMap = MapA
  /\ Replaced # {}
  /\ records = << >>

\* the MD5 digests of some names as RFC 1321 defines them ("a" is in its
\* test suite), in hexadecimal
ReferenceDigests ==
  { [name |-> << "a" >>,
    digest |->
      << "0", "c", "c", "1", "7", "5", "b", "9", "c", "0", "f", "1", "b", "6", "a", "8" >>
      \o << "3", "1", "c", "3", "9", "9", "e", "2", "6", "9", "7", "7", "2", "6", "6", "1" >>],
    [name |-> << "b" >>,
    digest |->
      << "9", "2", "e", "b", "5", "f", "f", "e", "e", "6", "a", "e", "2", "f", "e", "c" >>
      \o << "3", "a", "d", "7", "1", "c", "7", "7", "7", "5", "3", "1", "5", "7", "8", "f" >>],
    [name |-> << "a", "b" >>,
    digest |->
      << "1", "8", "7", "e", "f", "4", "4", "3", "6", "1", "2", "2", "d", "1", "c", "c" >>
      \o << "2", "f", "4", "0", "d", "c", "2", "b", "9", "2", "f", "0", "e", "b", "a", "0" >>],
    [name |-> << "b", "a" >>,
    digest |->
      << "0", "7", "1", "5", "9", "c", "4", "7", "e", "e", "1", "b", "1", "9", "a", "e" >>
      \o << "4", "f", "b", "9", "c", "4", "0", "d", "4", "8", "0", "8", "5", "6", "c", "4" >>],
    [name |-> << "a", "a", "b" >>,
    digest |->
      << "e", "6", "2", "5", "9", "5", "e", "e", "9", "8", "b", "5", "8", "5", "1", "5" >>
      \o << "3", "d", "a", "c", "8", "7", "c", "e", "1", "a", "b", "6", "9", "c", "3", "c" >>] }

\* c1 and c2 are the same character but for the case of a letter
SameIgnoringCase(c1, c2) ==
  \/ c1 = c2
  \/ \E i \in 1..Len(LowerCase) :
       {c1, c2} = {LowerCase[i], UpperCase[i]}

\* n1 and n2 are equal case-insensitively
EqualIgnoringCase(n1, n2) ==
  /\ Len(n1) = Len(n2)
  /\ \A i \in 1..Len(n1) : SameIgnoringCase(n1[i], n2[i])

\* the ids the preview shows for the name n
IdsOf(n) == {id \in DOMAIN options.preview :
               EqualIgnoringCase(options.preview[id], n)}

\* C16: derivation determinism: names that are equal case-insensitively
\* get the same id from toId, and an id is 'x' followed by the first 16
\* characters of the hexadecimal MD5 digest of the lower-cased name, 17
\* characters in all.
C16_DerivationDeterminism ==
  options.step = "shown" =>
    /\ \A i \in DOMAIN options.lines : IdsOf(options.lines[i]) # {}
    /\ \A i, j \in DOMAIN options.lines :
         EqualIgnoringCase(options.lines[i], options.lines[j])
           => /\ IdsOf(options.lines[i]) = IdsOf(options.lines[j])
              /\ Cardinality(IdsOf(options.lines[i])) = 1
    /\ \A id \in DOMAIN options.preview :
         /\ Len(id) = 17
         /\ id[1] = "x"
         /\ \A k \in 2..17 : id[k] \in HexChars
         /\ \A ref \in ReferenceDigests :
              EqualIgnoringCase(options.preview[id], ref.name)
                => id = << "x" >> \o SubSeq(ref.digest, 1, 16)

\* the preview was rendered for two names that differ in case only and it
\* shows one id, the one of the reference digest
C16_Witness ==
  /\ options.step = "shown"
  /\ Len(options.lines) = 2
  /\ options.lines[1] # options.lines[2]
  /\ EqualIgnoringCase(options.lines[1], options.lines[2])
  /\ Cardinality(DOMAIN options.preview) = 1
  /\ \E ref \in ReferenceDigests :
       /\ EqualIgnoringCase(options.lines[1], ref.name)
       /\ DOMAIN options.preview = {<< "x" >> \o SubSeq(ref.digest, 1, 16)}

\* the tokens of call c that its mapping does not resolve
UnmappedTokens(c) ==
  {c.matches[k].id : k \in {j \in DOMAIN c.matches :
                              ~Mapped(c, c.matches[j].id)}}

\* the calls of log that replaced a leaf of the document holding a token
\* its mapping does not resolve
ChurnCalls(log) ==
  {i \in DOMAIN log : /\ log[i].outcome = "replaced"
                      /\ log[i].inDocument
                      /\ UnmappedTokens(log[i]) # {}}

\* queue holds a record saying that a text leaf with value t took the
\* place of node in heap d
Reinserted(d, queue, node, t) ==
  \E r \in DOMAIN queue :
    /\ queue[r].type = "childList"
    /\ queue[r].removedNodes = << node >>
    /\ \E j \in DOMAIN queue[r].addedNodes :
         /\ d[queue[r].addedNodes[j]].nodeType = "TEXT"
         /\ d[queue[r].addedNodes[j]].nodeValue = t

\* the text leaves the records of a batch add that the Rewriter made for
\* an unresolved token, are in the document d and are unresolved by map
ReinsertedLeaves(d, mutations, map) ==
  {n \in AddedNodes(mutations) :
     /\ d[n].nodeType = "TEXT"
     /\ d[n].role = "unmapped"
     /\ InDocument(d, n)
     /\ ~Truthy(Lookup(map, d[n].nodeValue))}

\* C17: unresolved-token churn: once the observer is registered, a
\* callback that replaces a text leaf of the document holding an unmapped
\* token puts a plain text leaf with that same token in its place, which
\* queues a new node-added record for a leaf that matches again; the
\* text shown is unchanged when no token of the leaf is mapped; and a
\* callback given the record of such a re-inserted leaf replaces that
\* leaf again, so the queue never runs empty while the token stays
\* unmapped.
C17_UnmappedTokenChurn ==
  [][ last' = "Deliver" =>
        /\ \A i \in ChurnCalls(calls') :
             /\ \A t \in UnmappedTokens(calls'[i]) :
                  /\ \E j \in DOMAIN calls'[i].frag :
                       /\ calls'[i].frag[j].nodeType = "TEXT"
                       /\ calls'[i].frag[j].nodeValue = t
                  /\ Occurrences(t) # {}
                  /\ Reinserted(dom', records', calls'[i].node, t)
             /\ (\A k \in DOMAIN calls'[i].matches :
                   ~Mapped(calls'[i], calls'[i].matches[k].id))
                  => Rendered(calls'[i].frag) = calls'[i].text
        /\ \A n \in ReinsertedLeaves(dom, batch', idMap) :
             \E i \in ChurnCalls(calls') : calls'[i].node = n
        /\ ChurnCalls(calls') # {} => records' # << >> ]_vars

ReplacedIn(log) == {i \in DOMAIN log : log[i].outcome = "replaced"}

\* the nodes a handler made that are not inside another node it made: the
\* nodes of its fragments, in the order they were made
Produced(d, after) ==
  Sorted({n \in (Len(d) + 1)..Len(after) : after[n].parentNode <= Len(d)})

\* how many fragment nodes the replacing calls before call i made
RECURSIVE ProducedBefore(_, _)
ProducedBefore(log, i) ==
  IF i <= 1 THEN 0
  ELSE ProducedBefore(log, i - 1)
       + (IF log[i - 1].outcome = "replaced" THEN Len(log[i - 1].frag) ELSE 0)

\* the nodes of the fragment of call i
FragmentOf(d, after, log, i) ==
  SubSeq(Produced(d, after), ProducedBefore(log, i) + 1,
         ProducedBefore(log, i) + Len(log[i].frag))

\* the replaced leaves are leaves the handler found, each under a parent
\* of its own
OneRewritePerParent(d, log) ==
  \A i \in ReplacedIn(log) :
    /\ log[i].node <= Len(d)
    /\ \A j \in ReplacedIn(log) : log[j].parent = log[i].parent => j = i

\* call i put its fragment where the leaf was
InPlace(d, after, log, i) ==
  LET before == d[log[i].parent].childNodes
      at     == ChildIndex(d, log[i].node)
      frag   == FragmentOf(d, after, log, i)
  IN  /\ after[log[i].parent].childNodes
           = SubSeq(before, 1, at - 1) \o frag
             \o SubSeq(before, at + 1, Len(before))
      /\ after[log[i].node].parentNode = Null
      /\ Len(frag) = Len(log[i].frag)
      /\ \A k \in 1..Len(frag) : Describe(after, frag[k]) = log[i].frag[k]

\* C19: a rewritten leaf is replaced in place: in a handler that rewrites
\* at most one leaf under each parent, the nodes of the fragment built for
\* a leaf stand, in order, where the leaf stood among the children of its
\* parent, the leaf has no parent afterwards, and the other children of
\* the parent are the same nodes in the same order.
C19_ReplacedInPlace ==
  [][ (/\ last' \in {"Bootstrap", "Deliver"}
       /\ ReplacedIn(calls') # {}
       /\ OneRewritePerParent(dom, calls'))
      => \A i \in ReplacedIn(calls') : InPlace(dom, dom', calls', i) ]_vars

\* a handler replaced a leaf that stood between two other children of its
\* parent: the fragment stands between them
C19_Witness ==
  /\ last \in {"Bootstrap", "Deliver"}
  /\ \E i \in Replaced :
       LET kids == dom[calls[i].parent].childNodes
           n    == Len(calls[i].frag)
       IN  /\ n >= 3
           /\ dom[calls[i].node].parentNode = Null
           /\ Len(kids) = n + 2
           /\ dom[kids[1]].role = "host"
           /\ dom[kids[Len(kids)]].role = "host"
           /\ \A k \in 1..n : Describe(dom, kids[k + 1]) = calls[i].frag[k]

\* every record of the batch reports removed nodes and nothing else
OnlyRemovals(mutations) ==
  /\ mutations # << >>
  /\ \A i \in DOMAIN mutations :
       /\ mutations[i].type = "childList"
       /\ mutations[i].addedNodes = << >>
       /\ mutations[i].removedNodes # << >>

\* C20: node removal is a no-op: an observer callback on a batch that
\* holds only records of removed nodes leaves the document tree, the
\* mapping and the mode as they were, calls annotateOrReplaceTextNode for
\* no node and queues no record.
C20_RemovalIsNoOp ==
  [][ (last' = "Deliver" /\ OnlyRemovals(batch'))
      => /\ dom' = dom
         /\ idMap' = idMap
         /\ replaceMode' = replaceMode
         /\ calls' = << >>
         /\ records' = << >>
         /\ ~threw'
         /\ handled' = Len(batch') ]_vars

\* the callback has handled a batch of removals, and a removed subtree
\* holds a text leaf with a token
C20_Witness ==
  /\ last = "Deliver"
  /\ OnlyRemovals(batch)
  /\ handled = Len(batch)
  /\ \E i \in DOMAIN batch :
       MatchingLeaves(dom, batch[i].removedNodes[1]) # {}

\* C21: the options page and the content script agree on the mode: once
\* both have read the storage, and nothing was saved and the checkbox was
\* not clicked, the checkbox shows the mode the content script works with;
\* and Save with an untouched checkbox does not change the mode of a
\* content script that has started.
C21_DefaultModeAgreement ==
  /\ [](( /\ pc = "running"
          /\ options.step = "loaded"
          /\ ~options.touched
          /\ writes = 0 )
        => options.checked = replaceMode)
  /\ [][ (/\ last' = "OptionsSave"
          /\ pc = "running"
          /\ ~options.touched)
         => replaceMode' = replaceMode ]_vars

\* C22: ID_REGEX.lastIndex is 0 whenever annotateOrReplaceTextNode is
\* entered and between handlers, whatever calls came before; so for every
\* text node the call goes past the test of line 52 exactly when the text
\* holds a token, and no leaf with a token is left for a cursor an earlier
\* call moved.
C22_ScannerCursorIsZero ==
  /\ lastIndex = 0
  /\ \A i \in DOMAIN calls :
       /\ calls[i].entryLastIndex = 0
       /\ calls[i].outcome # "notText"
            => (calls[i].outcome = "noMatch"
                  <=> Occurrences(calls[i].text) = {})

\* one handler called the function for a leaf with a token, then for a
\* leaf without, then for a leaf with a token again
C22_Witness ==
  \E i, j, k \in DOMAIN calls :
    /\ i < j
    /\ j < k
    /\ calls[i].outcome = "replaced"
    /\ calls[j].outcome = "noMatch"
    /\ calls[k].outcome = "replaced"
    /\ calls[k].entryLastIndex = 0


=============================================================================
